---- MODULE Spec2Model ----
(***************************************************************************)
(* PDFLayoutViewer (postprocessing/manual_correction/src/PdfLayoutViewer.tsx) *)
(* as a state machine: the component's React state, the page loads in      *)
(* flight (each an async loadFiles closure suspended at one of its awaits),*)
(* and one action per event handler or fetch continuation.  An effect that *)
(* React runs after the render a handler causes is part of that handler's  *)
(* action.                                                                 *)
(***************************************************************************)
EXTENDS Integers, Sequences, FiniteSets, TLC

VARIABLES
    pageNumber,     \* useState(initialPageNumber)
    filePrefix,     \* the filePrefix prop
    imageUrl,       \* 0 = null, otherwise the object URL created by load n
    jsonData,       \* NoJson = null, otherwise [doc, load]
    loading,        \* useState(true)
    error,          \* "null" or the message
    rectangles,     \* sequence of DraggableRect
    dragMode,       \* DragMode
    draggedRectId,  \* "null" or a rectangle id
    lastMousePos,   \* [x, y]
    imageDimensions,\* [width, height]
    loads,          \* every loadFiles call so far: request, position, fetch outcomes
    nEvents,        \* bookkeeping: number of events handled so far, responses apart
    lastEvent,      \* bookkeeping: the event handled last, [kind, load]
    gesture         \* bookkeeping: the pointer-down that selected the rectangle

vars == << pageNumber, filePrefix, imageUrl, jsonData, loading, error, rectangles,
           dragMode, draggedRectId, lastMousePos, imageDimensions, loads, nEvents,
           lastEvent, gesture >>

-----------------------------------------------------------------------------
(* Bounds of the model *)

\* what one run may spend after the mount: an event of the user, the parent
\* or the page image costs one, a load it starts one more
MaxEvents == 4

-----------------------------------------------------------------------------
(* Values *)

handleSize == 8

initialPageNumber == 1
Prefixes == {"Fizika", "Kemia"}

\* pointer positions relative to the canvas: on each rectangle of DocBlocks
\* they reach corners, edge midpoints and the body, some at exactly handleSize
PointerXs == {0, 12, 24}
PointerYs == {0, 12}

NoJson == [doc |-> "null", load |-> 0]

\* naturalWidth and naturalHeight of the page images
NaturalSize == [width |-> 48, height |-> 24]

\* bookkeeping of a gesture: where the pointer went down, where the rectangle
\* it hit was then, the load whose document was on display, the moves since
NoGesture == [down |-> [x |-> 0, y |-> 0], origin |-> [x |-> 0, y |-> 0],
              load |-> 0, moves |-> 0]
Event(kind, load) == [kind |-> kind, load |-> load]

Abs(n) == IF n < 0 THEN -n ELSE n
Max(a, b) == IF a >= b THEN a ELSE b

\* The layout documents the JSON endpoint may answer with; "missing" is a
\* document whose pdf_info[0] carries no preproc_blocks list.
DocIds == {"two", "tags", "empty", "missing"}

Block(x0, y0, x1, y1, t) == [bbox |-> <<x0, y0, x1, y1>>, type |-> t]

DocHasBlocks(d) == d # "missing"

DocBlocks(d) ==
    CASE d = "two"  -> << Block(0, 0, 24, 24, "text"), Block(12, 0, 36, 8, "title") >>
      [] d = "tags" -> << Block(0, 0, 12, 20, "image"),
                          Block(0, 0, 48, 12, "interline_equation"),
                          Block(24, 0, 48, 24, "table") >>
      [] OTHER      -> << >>

-----------------------------------------------------------------------------
(* Derivation of the rectangles from a layout document *)

categoryColors(t) ==
    CASE t = "title" -> "black"
      [] t = "image" -> "blue"
      [] t = "text" -> "grey"
      [] t = "interline_equation" -> "green"
      [] OTHER -> "undefined"

BlockColor(t) == IF categoryColors(t) # "undefined" THEN categoryColors(t) ELSE "black"

\* width and height taken to be the bbox's second corner
RectOfBlock_CornerAsSize(block, index) ==
    [ id     |-> "rect-" \o ToString(index),
      x      |-> block.bbox[1],
      y      |-> block.bbox[2],
      width  |-> block.bbox[3],
      height |-> block.bbox[4],
      color  |-> BlockColor(block.type),
      type   |-> block.type ]

RectOfBlock(block, index) ==
    [ id     |-> "rect-" \o ToString(index),
      x      |-> block.bbox[1],
      y      |-> block.bbox[2],
      width  |-> block.bbox[3] - block.bbox[1],
      height |-> block.bbox[4] - block.bbox[2],
      color  |-> BlockColor(block.type),
      type   |-> block.type ]

\* useEffect[jsonData]: the rectangles after a document d arrived
DeriveRectangles(d, old) ==
    IF DocHasBlocks(d)
    THEN [i \in 1..Len(DocBlocks(d)) |-> RectOfBlock(DocBlocks(d)[i], i - 1)]
    ELSE old

-----------------------------------------------------------------------------
(* Hit-testing *)

Near(a, b) == Abs(a - b) <= handleSize
\* |a - (b + w / 2)| <= handleSize, without the division
NearMid(a, b, w) == Abs(2 * a - (2 * b + w)) <= 2 * handleSize

\* The predicate of rectangles.find: the drag mode it sets for r, or "miss"
HitMode(r, x, y) ==
    IF Near(x, r.x) /\ Near(y, r.y) THEN "ResizeTopLeft"
    ELSE IF Near(x, r.x + r.width) /\ Near(y, r.y) THEN "ResizeTopRight"
    ELSE IF Near(x, r.x) /\ Near(y, r.y + r.height) THEN "ResizeBottomLeft"
    ELSE IF Near(x, r.x + r.width) /\ Near(y, r.y + r.height) THEN "ResizeBottomRight"
    ELSE IF NearMid(x, r.x, r.width) /\ Near(y, r.y) THEN "ResizeTop"
    ELSE IF Near(x, r.x + r.width) /\ NearMid(y, r.y, r.height) THEN "ResizeRight"
    ELSE IF NearMid(x, r.x, r.width) /\ Near(y, r.y + r.height) THEN "ResizeBottom"
    ELSE IF Near(x, r.x) /\ NearMid(y, r.y, r.height) THEN "ResizeLeft"
    ELSE IF x >= r.x /\ x <= r.x + r.width /\ y >= r.y /\ y <= r.y + r.height THEN "Move"
    ELSE "miss"

\* the last rectangle the predicate accepts instead of the first
ClickedIndex_LastMatch(rects, x, y) ==
    IF \E i \in 1..Len(rects) : HitMode(rects[i], x, y) # "miss"
    THEN CHOOSE i \in 1..Len(rects) :
            /\ HitMode(rects[i], x, y) # "miss"
            /\ \A j \in (i + 1)..Len(rects) : HitMode(rects[j], x, y) = "miss"
    ELSE 0

\* rectangles.find: index of the first rectangle the predicate accepts, 0 if none
ClickedIndex(rects, x, y) ==
    IF \E i \in 1..Len(rects) : HitMode(rects[i], x, y) # "miss"
    THEN CHOOSE i \in 1..Len(rects) :
            /\ HitMode(rects[i], x, y) # "miss"
            /\ \A j \in 1..(i - 1) : HitMode(rects[j], x, y) = "miss"
    ELSE 0

-----------------------------------------------------------------------------
(* Drag update *)

\* ResizeLeft without the width compensation
ApplyDrag_LeftKeepsWidth(r, mode, dx, dy) ==
    CASE mode = "Move" -> [r EXCEPT !.x = r.x + dx, !.y = r.y + dy]
      [] mode = "ResizeTop" -> [r EXCEPT !.y = r.y + dy, !.height = r.height - dy]
      [] mode = "ResizeRight" -> [r EXCEPT !.width = r.width + dx]
      [] mode = "ResizeBottom" -> [r EXCEPT !.height = r.height + dy]
      [] mode = "ResizeLeft" -> [r EXCEPT !.x = r.x + dx]
      [] mode = "ResizeTopLeft" ->
            [r EXCEPT !.x = r.x + dx, !.y = r.y + dy,
                      !.width = r.width - dx, !.height = r.height - dy]
      [] mode = "ResizeTopRight" ->
            [r EXCEPT !.y = r.y + dy, !.width = r.width + dx, !.height = r.height - dy]
      [] mode = "ResizeBottomLeft" ->
            [r EXCEPT !.x = r.x + dx, !.width = r.width - dx, !.height = r.height + dy]
      [] mode = "ResizeBottomRight" ->
            [r EXCEPT !.width = r.width + dx, !.height = r.height + dy]
      [] OTHER -> r

\* ResizeTopLeft growing the height instead of shrinking it
ApplyDrag_TopLeftGrowsHeight(r, mode, dx, dy) ==
    CASE mode = "Move" -> [r EXCEPT !.x = r.x + dx, !.y = r.y + dy]
      [] mode = "ResizeTop" -> [r EXCEPT !.y = r.y + dy, !.height = r.height - dy]
      [] mode = "ResizeRight" -> [r EXCEPT !.width = r.width + dx]
      [] mode = "ResizeBottom" -> [r EXCEPT !.height = r.height + dy]
      [] mode = "ResizeLeft" -> [r EXCEPT !.x = r.x + dx, !.width = r.width - dx]
      [] mode = "ResizeTopLeft" ->
            [r EXCEPT !.x = r.x + dx, !.y = r.y + dy,
                      !.width = r.width - dx, !.height = r.height + dy]
      [] mode = "ResizeTopRight" ->
            [r EXCEPT !.y = r.y + dy, !.width = r.width + dx, !.height = r.height - dy]
      [] mode = "ResizeBottomLeft" ->
            [r EXCEPT !.x = r.x + dx, !.width = r.width - dx, !.height = r.height + dy]
      [] mode = "ResizeBottomRight" ->
            [r EXCEPT !.width = r.width + dx, !.height = r.height + dy]
      [] OTHER -> r

ApplyDrag(r, mode, dx, dy) ==
    CASE mode = "Move" -> [r EXCEPT !.x = r.x + dx, !.y = r.y + dy]
      [] mode = "ResizeTop" -> [r EXCEPT !.y = r.y + dy, !.height = r.height - dy]
      [] mode = "ResizeRight" -> [r EXCEPT !.width = r.width + dx]
      [] mode = "ResizeBottom" -> [r EXCEPT !.height = r.height + dy]
      [] mode = "ResizeLeft" -> [r EXCEPT !.x = r.x + dx, !.width = r.width - dx]
      [] mode = "ResizeTopLeft" ->
            [r EXCEPT !.x = r.x + dx, !.y = r.y + dy,
                      !.width = r.width - dx, !.height = r.height - dy]
      [] mode = "ResizeTopRight" ->
            [r EXCEPT !.y = r.y + dy, !.width = r.width + dx, !.height = r.height - dy]
      [] mode = "ResizeBottomLeft" ->
            [r EXCEPT !.x = r.x + dx, !.width = r.width - dx, !.height = r.height + dy]
      [] mode = "ResizeBottomRight" ->
            [r EXCEPT !.width = r.width + dx, !.height = r.height + dy]
      [] OTHER -> r

\* the map without its id test: every rectangle is dragged
DragRectangles_NoIdTest(rects, id, mode, dx, dy) ==
    [i \in 1..Len(rects) |-> ApplyDrag(rects[i], mode, dx, dy)]

\* prevRects.map(...) of handleMouseMove
\* a drag that keeps width and height at zero or more
DragRectangles_Clamped(rects, id, mode, dx, dy) ==
    [i \in 1..Len(rects) |->
        IF rects[i].id # id THEN rects[i]
        ELSE LET q == ApplyDrag(rects[i], mode, dx, dy) IN
             [q EXCEPT !.width = Max(0, q.width), !.height = Max(0, q.height)]]

DragRectangles(rects, id, mode, dx, dy) ==
    [i \in 1..Len(rects) |->
        IF rects[i].id # id THEN rects[i] ELSE ApplyDrag(rects[i], mode, dx, dy)]

-----------------------------------------------------------------------------
(* Rendering *)

\* the early returns of the render: "Loading...", the error message, the viewer
ViewerDisplayed == ~loading /\ error = "null"
\* the canvas is mounted inside {imageUrl && ...} of the viewer
CanvasRendered == ViewerDisplayed /\ imageUrl # 0

\* disabled below page 0 only
PreviousDisabled_BelowZero == pageNumber < 0

PreviousDisabled == pageNumber <= 0
NextDisabled == FALSE

PreviousPageNumber(prevNumber) == Max(0, prevNumber - 1)
NextPageNumber(prevNumber) == prevNumber + 1

-----------------------------------------------------------------------------
(* Page loader *)

NewLoad(page, prefix) ==
    [page |-> page, prefix |-> prefix, pc |-> "json", json |-> "none", image |-> "none"]

\* what the run has spent: the events handled and the loads they started
Spent == nEvents + Len(loads) - 1

\* useEffect[filePrefix, pageNumber]: loadFiles up to its first await
StartLoad(page, prefix) ==
    /\ Spent + 1 < MaxEvents
    /\ loads' = Append(loads, NewLoad(page, prefix))
    /\ loading' = TRUE

\* how a fetch can fail: a response whose ok is false, or a rejected promise
\* (the catch block then shows the message of the error the browser threw)
FetchFailures == {"notok", "reject"}

JsonErrorMessage(outcome) ==
    IF outcome = "notok" THEN "Failed to load JSON file" ELSE "Failed to fetch"

ImageErrorMessage(outcome) ==
    IF outcome = "notok" THEN "Failed to load image file" ELSE "Failed to fetch"

Init ==
    /\ pageNumber = initialPageNumber
    /\ filePrefix = "Fizika"
    /\ imageUrl = 0
    /\ jsonData = NoJson
    /\ loading = TRUE
    /\ error = "null"
    /\ rectangles = << >>
    /\ dragMode = "None"
    /\ draggedRectId = "null"
    /\ lastMousePos = [x |-> 0, y |-> 0]
    /\ imageDimensions = [width |-> 0, height |-> 0]
    /\ loads = << NewLoad(pageNumber, filePrefix) >>
    /\ nEvents = 0
    /\ lastEvent = Event("mount", 0)
    /\ gesture = NoGesture

\* an event of the user, the parent or the page image is handled: the budget
\* of the run, and the event record
UserEvent(kind) ==
    /\ Spent < MaxEvents
    /\ nEvents' = nEvents + 1
    /\ lastEvent' = Event(kind, 0)

\* the parent renders the component with another filePrefix
ChangePrefix ==
    /\ UserEvent("prefix")
    /\ \E p \in Prefixes \ {filePrefix} :
          /\ filePrefix' = p
          /\ StartLoad(pageNumber, p)
    /\ UNCHANGED << pageNumber, imageUrl, jsonData, error, rectangles, dragMode,
                    draggedRectId, lastMousePos, imageDimensions, gesture >>

handlePreviousPage ==
    /\ ViewerDisplayed
    /\ ~PreviousDisabled
    /\ UserEvent("previous")
    /\ pageNumber' = PreviousPageNumber(pageNumber)
    /\ IF pageNumber' # pageNumber
       THEN StartLoad(pageNumber', filePrefix)
       ELSE UNCHANGED << loads, loading >>
    /\ UNCHANGED << filePrefix, imageUrl, jsonData, error, rectangles, dragMode,
                    draggedRectId, lastMousePos, imageDimensions, gesture >>

handleNextPage ==
    /\ ViewerDisplayed
    /\ ~NextDisabled
    /\ UserEvent("next")
    /\ pageNumber' = NextPageNumber(pageNumber)
    /\ IF pageNumber' # pageNumber
       THEN StartLoad(pageNumber', filePrefix)
       ELSE UNCHANGED << loads, loading >>
    /\ UNCHANGED << filePrefix, imageUrl, jsonData, error, rectangles, dragMode,
                    draggedRectId, lastMousePos, imageDimensions, gesture >>

\* a loader that drops the document of a request which is no longer the
\* current one
JsonResponse_DropsStale(i, outcome, d) ==
    /\ loads[i].pc = "json"
    /\ IF outcome = "ok"
       THEN /\ IF loads[i].page = pageNumber /\ loads[i].prefix = filePrefix
               THEN /\ jsonData' = [doc |-> d, load |-> i]
                    /\ rectangles' = DeriveRectangles(d, rectangles)
               ELSE UNCHANGED << jsonData, rectangles >>
            /\ loads' = [loads EXCEPT ![i].pc = "image", ![i].json = "ok"]
            /\ UNCHANGED << error, loading >>
       ELSE /\ error' = JsonErrorMessage(outcome)
            /\ loading' = FALSE
            /\ loads' = [loads EXCEPT ![i].pc = "failed", ![i].json = outcome]
            /\ UNCHANGED << jsonData, rectangles >>
    /\ lastEvent' = Event("json", i)
    /\ UNCHANGED << pageNumber, filePrefix, imageUrl, dragMode, draggedRectId,
                    lastMousePos, imageDimensions, nEvents, gesture >>

\* loadFiles resumes after the JSON fetch: status check, body parse,
\* setJsonData, and the useEffect[jsonData] that follows the render
JsonResponse(i, outcome, d) ==
    /\ loads[i].pc = "json"
    /\ IF outcome = "ok"
       THEN /\ jsonData' = [doc |-> d, load |-> i]
            /\ rectangles' = DeriveRectangles(d, rectangles)
            /\ loads' = [loads EXCEPT ![i].pc = "image", ![i].json = "ok"]
            /\ UNCHANGED << error, loading >>
       ELSE /\ error' = JsonErrorMessage(outcome)
            /\ loading' = FALSE
            /\ loads' = [loads EXCEPT ![i].pc = "failed", ![i].json = outcome]
            /\ UNCHANGED << jsonData, rectangles >>
    /\ lastEvent' = Event("json", i)
    /\ UNCHANGED << pageNumber, filePrefix, imageUrl, dragMode, draggedRectId,
                    lastMousePos, imageDimensions, nEvents, gesture >>

\* a catch block without setLoading(false)
ImageResponse_KeepsLoadingOnFailure(i, outcome) ==
    /\ loads[i].pc = "image"
    /\ IF outcome = "ok"
       THEN /\ imageUrl' = i
            /\ loads' = [loads EXCEPT ![i].pc = "loaded", ![i].image = "ok"]
            /\ loading' = FALSE
            /\ UNCHANGED error
       ELSE /\ error' = ImageErrorMessage(outcome)
            /\ loads' = [loads EXCEPT ![i].pc = "failed", ![i].image = outcome]
            /\ UNCHANGED << imageUrl, loading >>
    /\ lastEvent' = Event("image", i)
    /\ UNCHANGED << pageNumber, filePrefix, jsonData, rectangles, dragMode,
                    draggedRectId, lastMousePos, imageDimensions, nEvents, gesture >>

\* loadFiles resumes after the image fetch
ImageResponse(i, outcome) ==
    /\ loads[i].pc = "image"
    /\ IF outcome = "ok"
       THEN /\ imageUrl' = i
            /\ loads' = [loads EXCEPT ![i].pc = "loaded", ![i].image = "ok"]
            /\ UNCHANGED error
       ELSE /\ error' = ImageErrorMessage(outcome)
            /\ loads' = [loads EXCEPT ![i].pc = "failed", ![i].image = outcome]
            /\ UNCHANGED imageUrl
    /\ loading' = FALSE
    /\ lastEvent' = Event("image", i)
    /\ UNCHANGED << pageNumber, filePrefix, jsonData, rectangles, dragMode,
                    draggedRectId, lastMousePos, imageDimensions, nEvents, gesture >>

\* handleMouseDown without setLastMousePos
handleMouseDown_KeepsLastPos(x, y) ==
    /\ CanvasRendered
    /\ UserEvent("mousedown")
    /\ LET i == ClickedIndex(rectangles, x, y) IN
       IF i # 0
       THEN /\ dragMode' = HitMode(rectangles[i], x, y)
            /\ draggedRectId' = rectangles[i].id
            /\ gesture' = [down |-> [x |-> x, y |-> y],
                           origin |-> [x |-> rectangles[i].x, y |-> rectangles[i].y],
                           load |-> jsonData.load, moves |-> 0]
       ELSE UNCHANGED << dragMode, draggedRectId, gesture >>
    /\ UNCHANGED << pageNumber, filePrefix, imageUrl, jsonData, loading, error,
                    rectangles, lastMousePos, imageDimensions, loads >>

handleMouseDown(x, y) ==
    /\ CanvasRendered
    /\ UserEvent("mousedown")
    /\ LET i == ClickedIndex(rectangles, x, y) IN
       IF i # 0
       THEN /\ dragMode' = HitMode(rectangles[i], x, y)
            /\ draggedRectId' = rectangles[i].id
            /\ lastMousePos' = [x |-> x, y |-> y]
            /\ gesture' = [down |-> [x |-> x, y |-> y],
                           origin |-> [x |-> rectangles[i].x, y |-> rectangles[i].y],
                           load |-> jsonData.load, moves |-> 0]
       ELSE UNCHANGED << dragMode, draggedRectId, lastMousePos, gesture >>
    /\ UNCHANGED << pageNumber, filePrefix, imageUrl, jsonData, loading, error,
                    rectangles, imageDimensions, loads >>

\* handleMouseMove without setLastMousePos
handleMouseMove_KeepsLastPos(x, y) ==
    /\ CanvasRendered
    /\ UserEvent("mousemove")
    /\ IF dragMode = "None" \/ draggedRectId = "null"
       THEN UNCHANGED << rectangles, gesture >>
       ELSE /\ rectangles' = DragRectangles(rectangles, draggedRectId, dragMode,
                                            x - lastMousePos.x, y - lastMousePos.y)
            /\ gesture' = [gesture EXCEPT !.moves = @ + 1]
    /\ UNCHANGED << pageNumber, filePrefix, imageUrl, jsonData, loading, error,
                    dragMode, draggedRectId, lastMousePos, imageDimensions, loads >>

handleMouseMove(x, y) ==
    /\ CanvasRendered
    /\ UserEvent("mousemove")
    /\ IF dragMode = "None" \/ draggedRectId = "null"
       THEN UNCHANGED << rectangles, lastMousePos, gesture >>
       ELSE /\ rectangles' = DragRectangles(rectangles, draggedRectId, dragMode,
                                            x - lastMousePos.x, y - lastMousePos.y)
            /\ lastMousePos' = [x |-> x, y |-> y]
            /\ gesture' = [gesture EXCEPT !.moves = @ + 1]
    /\ UNCHANGED << pageNumber, filePrefix, imageUrl, jsonData, loading, error,
                    dragMode, draggedRectId, imageDimensions, loads >>

\* handleMouseUp without setDraggedRectId(null)
handleMouseUp_KeepsSelection ==
    /\ CanvasRendered
    /\ UserEvent("mouseup")
    /\ dragMode' = "None"
    /\ gesture' = NoGesture
    /\ UNCHANGED << pageNumber, filePrefix, imageUrl, jsonData, loading, error,
                    rectangles, draggedRectId, lastMousePos, imageDimensions, loads >>

\* handleMouseUp without setDragMode(DragMode.None)
handleMouseUp_KeepsMode ==
    /\ CanvasRendered
    /\ UserEvent("mouseup")
    /\ draggedRectId' = "null"
    /\ gesture' = NoGesture
    /\ UNCHANGED << pageNumber, filePrefix, imageUrl, jsonData, loading, error,
                    rectangles, dragMode, lastMousePos, imageDimensions, loads >>

\* onMouseUp and onMouseLeave
handleMouseUp ==
    /\ CanvasRendered
    /\ UserEvent("mouseup")
    /\ dragMode' = "None"
    /\ draggedRectId' = "null"
    /\ gesture' = NoGesture
    /\ UNCHANGED << pageNumber, filePrefix, imageUrl, jsonData, loading, error,
                    rectangles, lastMousePos, imageDimensions, loads >>

\* an onLoad that derives the rectangles from the stored document again
handleImageLoad_Rederives ==
    /\ CanvasRendered
    /\ imageDimensions # NaturalSize
    /\ UserEvent("imageload")
    /\ imageDimensions' = NaturalSize
    /\ rectangles' = DeriveRectangles(jsonData.doc, rectangles)
    /\ UNCHANGED << pageNumber, filePrefix, imageUrl, jsonData, loading, error,
                    dragMode, draggedRectId, lastMousePos, loads, gesture >>

\* onLoad of the page image; a load event that finds the natural size already
\* stored stores the same size again
handleImageLoad ==
    /\ CanvasRendered
    /\ imageDimensions # NaturalSize
    /\ UserEvent("imageload")
    /\ imageDimensions' = NaturalSize
    /\ UNCHANGED << pageNumber, filePrefix, imageUrl, jsonData, loading, error,
                    rectangles, dragMode, draggedRectId, lastMousePos, loads,
                    gesture >>

Next ==
    \/ ChangePrefix
    \/ handlePreviousPage
    \/ handleNextPage
    \/ \E i \in 1..Len(loads), d \in DocIds : JsonResponse(i, "ok", d)
    \/ \E i \in 1..Len(loads), o \in FetchFailures : JsonResponse(i, o, "null")
    \/ \E i \in 1..Len(loads), o \in {"ok"} \cup FetchFailures : ImageResponse(i, o)
    \/ \E x \in PointerXs, y \in PointerYs : handleMouseDown(x, y)
    \/ \E x \in PointerXs, y \in PointerYs : handleMouseMove(x, y)
    \/ handleMouseUp
    \/ handleImageLoad

Spec == Init /\ [][Next]_vars

\* the next continuation of load i: the fetch it awaits responds or rejects
LoadStep(i) ==
    /\ i <= Len(loads)
    /\ \/ \E d \in DocIds : JsonResponse(i, "ok", d)
       \/ \E o \in FetchFailures : JsonResponse(i, o, "null")
       \/ \E o \in {"ok"} \cup FetchFailures : ImageResponse(i, o)

\* the loads one run can start: the one at the mount, and one for every event
\* that starts a load
LoadIds == 1..(1 + MaxEvents \div 2)

\* every fetch is answered in the end, and the event loop then runs the
\* continuation that awaits it
FairSpec == Spec /\ \A i \in LoadIds : WF_vars(LoadStep(i))

-----------------------------------------------------------------------------
(* What the specification says, stated without the definitions above *)

Pointers == [x : PointerXs, y : PointerYs]

Idle == dragMode = "None" /\ draggedRectId = "null"

\* the load whose fetch was answered last
LastLoad == loads[lastEvent.load]
LoadEnded == lastEvent.kind \in {"json", "image"} /\ LastLoad.pc \in {"loaded", "failed"}
DocumentArrived == lastEvent.kind = "json" /\ LastLoad.json = "ok"

ClaimColor(t) ==
    CASE t = "title" -> "black"
      [] t = "image" -> "blue"
      [] t = "text" -> "grey"
      [] t = "interline_equation" -> "green"
      [] OTHER -> "black"

\* the rectangle list index of the rectangle being dragged, 0 if there is none
DraggedIndex ==
    IF \E i \in 1..Len(rectangles) : rectangles[i].id = draggedRectId
    THEN CHOOSE i \in 1..Len(rectangles) : rectangles[i].id = draggedRectId
    ELSE 0

\* a pointer-move that finds a drag in progress
DragStep(p) == handleMouseMove(p.x, p.y) /\ dragMode # "None" /\ draggedRectId # "null"

OthersUnchanged ==
    /\ Len(rectangles') = Len(rectangles)
    /\ \A i \in 1..Len(rectangles) : i # DraggedIndex => rectangles'[i] = rectangles[i]

Left(r) == r.x
Right(r) == r.x + r.width
Top(r) == r.y
Bottom(r) == r.y + r.height

\* r and q differ in geometry only
SameIdentity(r, q) == r.id = q.id /\ r.color = q.color /\ r.type = q.type

\* C1: a load ends in the loaded state (loading flag false, no error message,
\* viewer displayed) if and only if both of its fetches were answered with a
\* success status, for every load of a run
C1_LoadedIffBothSucceeded ==
    LoadEnded => (ViewerDisplayed <=> (LastLoad.json = "ok" /\ LastLoad.image = "ok"))

\* C2: when a layout document with a block list arrives, the rectangles are
\* exactly one per block of the first page entry, in block order, with
\* x = x0, y = y0, width = x1 - x0, height = y1 - y0, the block's type and
\* the color mapped from the type (the default color for an unknown type)
C2_RectanglesFromBlocks ==
    (DocumentArrived /\ DocHasBlocks(jsonData.doc)) =>
        LET blocks == DocBlocks(jsonData.doc) IN
        /\ Len(rectangles) = Len(blocks)
        /\ \A i \in 1..Len(blocks) :
              /\ rectangles[i].x = blocks[i].bbox[1]
              /\ rectangles[i].y = blocks[i].bbox[2]
              /\ rectangles[i].x + rectangles[i].width = blocks[i].bbox[3]
              /\ rectangles[i].y + rectangles[i].height = blocks[i].bbox[4]
              /\ rectangles[i].type = blocks[i].type
              /\ rectangles[i].color = ClaimColor(blocks[i].type)

C2_Witness ==
    /\ DocumentArrived
    /\ jsonData = [doc |-> "tags", load |-> lastEvent.load]
    /\ Len(rectangles) = 3
    /\ rectangles[3].type = "table"

\* the handle of rectangle r a resize mode grabs, as twice its coordinates
ClaimHandle2(r, mode) ==
    CASE mode = "ResizeTopLeft"     -> << 2 * Left(r), 2 * Top(r) >>
      [] mode = "ResizeTopRight"    -> << 2 * Right(r), 2 * Top(r) >>
      [] mode = "ResizeBottomLeft"  -> << 2 * Left(r), 2 * Bottom(r) >>
      [] mode = "ResizeBottomRight" -> << 2 * Right(r), 2 * Bottom(r) >>
      [] mode = "ResizeTop"         -> << Left(r) + Right(r), 2 * Top(r) >>
      [] mode = "ResizeRight"       -> << 2 * Right(r), Top(r) + Bottom(r) >>
      [] mode = "ResizeBottom"      -> << Left(r) + Right(r), 2 * Bottom(r) >>
      [] mode = "ResizeLeft"        -> << 2 * Left(r), Top(r) + Bottom(r) >>

ClaimOrder ==
    << "ResizeTopLeft", "ResizeTopRight", "ResizeBottomLeft", "ResizeBottomRight",
       "ResizeTop", "ResizeRight", "ResizeBottom", "ResizeLeft", "Move" >>

\* the pointer p is within 8 px of the handle of the mode, or inside the body
ClaimMatches(r, mode, p) ==
    IF mode = "Move"
    THEN Left(r) <= p.x /\ p.x <= Right(r) /\ Top(r) <= p.y /\ p.y <= Bottom(r)
    ELSE /\ Abs(2 * p.x - ClaimHandle2(r, mode)[1]) <= 16
         /\ Abs(2 * p.y - ClaimHandle2(r, mode)[2]) <= 16

ClaimMatchesAny(r, p) == \E k \in 1..Len(ClaimOrder) : ClaimMatches(r, ClaimOrder[k], p)

ClaimHits(p) == {i \in 1..Len(rectangles) : ClaimMatchesAny(rectangles[i], p)}

\* C3: on pointer-down the selected rectangle is the first one in list order
\* that the pointer matches (within 8 px of one of its eight handles on both
\* axes, or inside its body), and the drag mode is the first match in the
\* order TopLeft, TopRight, BottomLeft, BottomRight, Top, Right, Bottom, Left,
\* Move
C3_FirstRectangleFirstMode ==
    [][\A p \in Pointers :
          (handleMouseDown(p.x, p.y) /\ ClaimHits(p) # {}) =>
             \E i \in ClaimHits(p), k \in 1..Len(ClaimOrder) :
                /\ \A j \in ClaimHits(p) : i <= j
                /\ ClaimMatches(rectangles[i], ClaimOrder[k], p)
                /\ \A m \in 1..(k - 1) : ~ClaimMatches(rectangles[i], ClaimOrder[m], p)
                /\ draggedRectId' = rectangles[i].id
                /\ dragMode' = ClaimOrder[k]]_vars

\* a pointer-down that matched two rectangles, and a corner, an edge and the
\* body of the first of them
C3_Witness ==
    /\ lastEvent.kind = "mousedown"
    /\ Cardinality(ClaimHits(lastMousePos)) >= 2
    /\ \E i \in ClaimHits(lastMousePos) :
          /\ rectangles[i].id = draggedRectId
          /\ ClaimMatches(rectangles[i], "ResizeTop", lastMousePos)
          /\ ClaimMatches(rectangles[i], "Move", lastMousePos)
    /\ dragMode = "ResizeTopLeft"

\* C4: in Move mode a pointer-move with delta (dx, dy) adds (dx, dy) to the
\* dragged rectangle's (x, y), keeps its width and height, and leaves every
\* other rectangle and the order and length of the list unchanged
C4_MoveTranslates ==
    [][\A p \in Pointers :
          (DragStep(p) /\ dragMode = "Move") =>
             /\ OthersUnchanged
             /\ DraggedIndex # 0 =>
                   LET r == rectangles[DraggedIndex]
                       q == rectangles'[DraggedIndex]
                   IN /\ q.x = r.x + (p.x - lastMousePos.x)
                      /\ q.y = r.y + (p.y - lastMousePos.y)
                      /\ q.width = r.width
                      /\ q.height = r.height
                      /\ SameIdentity(r, q)]_vars

\* the rectangle being dragged, after a pointer-move that changed it
DraggedIn(mode) ==
    /\ lastEvent.kind = "mousemove"
    /\ dragMode = mode
    /\ DraggedIndex # 0
    /\ DocHasBlocks(jsonData.doc)
    /\ Len(rectangles) = Len(DocBlocks(jsonData.doc))
    /\ rectangles[DraggedIndex] # DeriveRectangles(jsonData.doc, << >>)[DraggedIndex]

C4_Witness == DraggedIn("Move") /\ Len(rectangles) >= 2

\* C5: a single-edge resize moves that edge and keeps the other three:
\* ResizeRight changes only width, by dx; ResizeBottom changes only height,
\* by dy; ResizeLeft changes x by dx and width by -dx; ResizeTop changes y
\* by dy and height by -dy
C5_EdgeResize ==
    [][\A p \in Pointers :
          (DragStep(p) /\ DraggedIndex # 0) =>
             LET r == rectangles[DraggedIndex]
                 q == rectangles'[DraggedIndex]
                 dx == p.x - lastMousePos.x
                 dy == p.y - lastMousePos.y
             IN /\ dragMode = "ResizeRight" =>
                      /\ Right(q) = Right(r) + dx
                      /\ Left(q) = Left(r) /\ Top(q) = Top(r) /\ Bottom(q) = Bottom(r)
                      /\ q = [r EXCEPT !.width = r.width + dx]
                /\ dragMode = "ResizeBottom" =>
                      /\ Bottom(q) = Bottom(r) + dy
                      /\ Left(q) = Left(r) /\ Top(q) = Top(r) /\ Right(q) = Right(r)
                      /\ q = [r EXCEPT !.height = r.height + dy]
                /\ dragMode = "ResizeLeft" =>
                      /\ Left(q) = Left(r) + dx
                      /\ Right(q) = Right(r) /\ Top(q) = Top(r) /\ Bottom(q) = Bottom(r)
                      /\ q.x = r.x + dx /\ q.width = r.width - dx
                      /\ SameIdentity(r, q)
                /\ dragMode = "ResizeTop" =>
                      /\ Top(q) = Top(r) + dy
                      /\ Left(q) = Left(r) /\ Right(q) = Right(r) /\ Bottom(q) = Bottom(r)
                      /\ q.y = r.y + dy /\ q.height = r.height - dy
                      /\ SameIdentity(r, q)]_vars

C5_Witness == DraggedIn("ResizeLeft")

\* C6: a corner resize has the effect of the two adjacent single-edge
\* resizes with the same delta, so the opposite corner stays where it is;
\* ResizeTopLeft by (dx, dy) changes x by dx, y by dy, width by -dx and
\* height by -dy
C6_CornerResize ==
    [][\A p \in Pointers :
          (DragStep(p) /\ DraggedIndex # 0) =>
             LET r == rectangles[DraggedIndex]
                 q == rectangles'[DraggedIndex]
                 dx == p.x - lastMousePos.x
                 dy == p.y - lastMousePos.y
                 Both(vertical, horizontal) ==
                     ApplyDrag(ApplyDrag(r, vertical, dx, dy), horizontal, dx, dy)
             IN /\ dragMode = "ResizeTopLeft" =>
                      /\ q = Both("ResizeTop", "ResizeLeft")
                      /\ Right(q) = Right(r) /\ Bottom(q) = Bottom(r)
                      /\ q.x = r.x + dx /\ q.y = r.y + dy
                      /\ q.width = r.width - dx /\ q.height = r.height - dy
                /\ dragMode = "ResizeTopRight" =>
                      /\ q = Both("ResizeTop", "ResizeRight")
                      /\ Left(q) = Left(r) /\ Bottom(q) = Bottom(r)
                /\ dragMode = "ResizeBottomLeft" =>
                      /\ q = Both("ResizeBottom", "ResizeLeft")
                      /\ Right(q) = Right(r) /\ Top(q) = Top(r)
                /\ dragMode = "ResizeBottomRight" =>
                      /\ q = Both("ResizeBottom", "ResizeRight")
                      /\ Left(q) = Left(r) /\ Top(q) = Top(r)]_vars

C6_Witness == DraggedIn("ResizeTopLeft")

\* C7: page navigation keeps the page number at or above 0: Previous is
\* disabled and a no-op at page 0 and otherwise decrements by exactly 1, Next
\* is never disabled and increments by exactly 1
C7_PageNavigation ==
    /\ [](/\ pageNumber >= 0
          /\ pageNumber = 0 =>
                (PreviousDisabled /\ PreviousPageNumber(pageNumber) = pageNumber)
          /\ ~NextDisabled)
    /\ [][/\ handlePreviousPage => pageNumber' = pageNumber - 1
          /\ handleNextPage => pageNumber' = pageNumber + 1]_vars

C7_Witness == lastEvent.kind = "previous" /\ pageNumber = 0 /\ PreviousDisabled

\* the rectangles a document yields on its own: none for a first page entry
\* without blocks
ClaimFresh(d) == [i \in 1..Len(DocBlocks(d)) |-> RectOfBlock(DocBlocks(d)[i], i - 1)]

C9_GestureStateMachine ==
    [][/\ \A p \in Pointers :
             (handleMouseDown(p.x, p.y) /\ Idle) =>
                IF ClaimHits(p) # {}
                THEN \E i \in ClaimHits(p) :
                        /\ draggedRectId' = rectangles[i].id
                        /\ dragMode' # "None"
                        /\ ClaimMatches(rectangles[i], dragMode', p)
                ELSE Idle'
       /\ handleMouseUp => Idle'
       /\ lastEvent'.kind \notin {"mousedown", "mouseup"} =>
             UNCHANGED << dragMode, draggedRectId >>]_vars

\* a gesture that has ended: the pointer went down on a rectangle, and is up
C9_Witness ==
    /\ lastEvent.kind = "mouseup"
    /\ Idle
    /\ lastMousePos # [x |-> 0, y |-> 0]

\* C10: a load of which a fetch failed ends in the error state with the
\* loading flag cleared and leaves no other trace: the stored layout document
\* is not the one that load fetched
C10_FailedLoadLeavesNoTrace ==
    (LoadEnded /\ LastLoad.pc = "failed") =>
        /\ error # "null"
        /\ ~loading
        /\ jsonData.load # lastEvent.load

-----------------------------------------------------------------------------
(* Overlapping loads *)

InFlight(l) == l.pc \in {"json", "image"}
AllLoadsEnded == \A i \in 1..Len(loads) : ~InFlight(loads[i])
ImageArrived == lastEvent.kind = "image" /\ LastLoad.image = "ok"
LoadIsCurrent(l) == l.page = pageNumber /\ l.prefix = filePrefix

\* C11: a load in flight is not cancelled when the page number or the prefix
\* changes, and its responses are applied when they arrive, whichever request
\* is then the current one: the document of a successful JSON response and
\* the image of a successful image response are stored at once
C11_StaleResponsesApplied ==
    /\ [](DocumentArrived => jsonData.load = lastEvent.load)
    /\ [](ImageArrived => imageUrl = lastEvent.load)
    /\ [][\A i \in 1..Len(loads) :
             (InFlight(loads[i]) /\ (pageNumber' # pageNumber \/ filePrefix' # filePrefix))
                => loads'[i] = loads[i]]_vars

\* page A was requested, then page B; the responses of B arrived first, those
\* of A last; every load has ended, the viewer is displayed, the page number
\* is B and the stored document or image is the one of A
C11_Witness ==
    /\ AllLoadsEnded
    /\ lastEvent.kind \in {"json", "image"}
    /\ \E a, b \in 1..Len(loads) :
          /\ a < b
          /\ lastEvent.load = a
          /\ loads[a].page # loads[b].page
          /\ loads[b].page = pageNumber
          /\ loads[b].pc = "loaded"
          /\ jsonData.load = a \/ imageUrl = a
    /\ ViewerDisplayed

LatestLoad == loads[Len(loads)]

\* C12: the page counts as loaded (loading false, no error) only after both
\* fetches of the load for the current page number have completed, and the
\* loading flag is never false while a fetch of the latest load is outstanding
C12_LoadedOnlyAfterLatestLoad ==
    /\ ViewerDisplayed => LatestLoad.pc = "loaded"
    /\ ~loading => ~InFlight(LatestLoad)

-----------------------------------------------------------------------------
(* The pointer position and the size of a rectangle under a drag *)

\* C13 as claimed: every pointer-move stores the position of the event as the
\* last pointer position, whether or not a drag is active
C13_EveryMoveStoresPointer ==
    [][\A p \in Pointers : handleMouseMove(p.x, p.y) => lastMousePos' = p]_vars

\* C13 as the code has it: a pointer-move handled while a drag is active
\* (a drag mode and a selected id) stores the position of the event as the
\* last pointer position; a pointer-move in Idle leaves the stored position
\* as it was
C13_MoveStoresPointerWhileDragging ==
    [][\A p \in Pointers :
          handleMouseMove(p.x, p.y) =>
             IF dragMode = "None" \/ draggedRectId = "null"
             THEN lastMousePos' = lastMousePos
             ELSE lastMousePos' = p]_vars

\* the pointer has moved away from where it went down, under a drag
C13_Witness ==
    /\ lastEvent.kind = "mousemove"
    /\ ~Idle
    /\ gesture.moves >= 1
    /\ lastMousePos # gesture.down

LeftModes == {"ResizeLeft", "ResizeTopLeft", "ResizeBottomLeft"}
RightModes == {"ResizeRight", "ResizeTopRight", "ResizeBottomRight"}
TopModes == {"ResizeTop", "ResizeTopLeft", "ResizeTopRight"}
BottomModes == {"ResizeBottom", "ResizeBottomLeft", "ResizeBottomRight"}

\* the width and height a resize by (dx, dy) asks for
ClaimWidth(r, mode, dx) ==
    IF mode \in LeftModes THEN r.width - dx
    ELSE IF mode \in RightModes THEN r.width + dx ELSE r.width

ClaimHeight(r, mode, dy) ==
    IF mode \in TopModes THEN r.height - dy
    ELSE IF mode \in BottomModes THEN r.height + dy ELSE r.height

NegativeSize(r) == r.width < 0 \/ r.height < 0

\* C14: a resize is not clamped: a move whose delta exceeds the current width
\* or height is applied as is, the stored width or height is the negative
\* number the arithmetic gives and the position is the one the mode gives
\* (no minimum size, no swap of edges), and no later event other than a drag
\* or the arrival of a document touches the rectangle
C14_ResizeNotClamped ==
    [][/\ \A p \in Pointers :
             (DragStep(p) /\ DraggedIndex # 0) =>
                LET r  == rectangles[DraggedIndex]
                    q  == rectangles'[DraggedIndex]
                    dx == p.x - lastMousePos.x
                    dy == p.y - lastMousePos.y
                IN  /\ ClaimWidth(r, dragMode, dx) < 0 =>
                          /\ q.width = ClaimWidth(r, dragMode, dx)
                          /\ q.x = IF dragMode \in LeftModes THEN r.x + dx ELSE r.x
                    /\ ClaimHeight(r, dragMode, dy) < 0 =>
                          /\ q.height = ClaimHeight(r, dragMode, dy)
                          /\ q.y = IF dragMode \in TopModes THEN r.y + dy ELSE r.y
       /\ ((\E i \in 1..Len(rectangles) : NegativeSize(rectangles[i]))
             /\ lastEvent'.kind \notin {"mousemove", "json"})
                => rectangles' = rectangles]_vars

\* a resize has just left the dragged rectangle with a negative width or height
C14_Witness ==
    /\ lastEvent.kind = "mousemove"
    /\ dragMode \in LeftModes \cup RightModes \cup TopModes \cup BottomModes
    /\ DraggedIndex # 0
    /\ NegativeSize(rectangles[DraggedIndex])

-----------------------------------------------------------------------------
(* What changes the rectangles *)

RectanglesKept ==
    \A i \in 1..Len(rectangles) : i <= Len(rectangles') /\ rectangles'[i] = rectangles[i]

NoDrag == dragMode = "None" \/ draggedRectId = "null"

\* C15 as claimed: only the pointer-move handler changes a rectangle: every
\* other event (pointer-down, pointer-up, pointer-leave, Previous, Next,
\* image-load, every load event) leaves id, position, size, color and type of
\* every rectangle as they were, and so does a pointer-move in Idle
C15_OnlyPointerMoveMutates ==
    [][/\ lastEvent'.kind # "mousemove" => RectanglesKept
       /\ (lastEvent'.kind = "mousemove" /\ NoDrag) => RectanglesKept]_vars

\* C15 as the code has it: the rectangles change in two ways only: by a
\* pointer-move under a drag, which keeps the number of rectangles and the
\* id, color and type of each, and by the arrival of a layout document with
\* a block list, after which they are the ones derived from that document;
\* every other event, a pointer-move in Idle included, leaves them as they were
C15_MutatedByDragOrDocument ==
    [][/\ rectangles' # rectangles =>
             \/ lastEvent'.kind = "mousemove" /\ ~NoDrag
             \/ /\ lastEvent'.kind = "json"
                /\ jsonData' # jsonData
                /\ DocHasBlocks(jsonData'.doc)
                /\ rectangles' = ClaimFresh(jsonData'.doc)
       /\ lastEvent'.kind = "mousemove" =>
             /\ Len(rectangles') = Len(rectangles)
             /\ \A i \in 1..Len(rectangles) : SameIdentity(rectangles[i], rectangles'[i])]_vars

\* the page image has loaded over rectangles a drag had edited, and they are
\* still as edited
C15_Witness ==
    /\ lastEvent.kind = "imageload"
    /\ DocHasBlocks(jsonData.doc)
    /\ rectangles # << >>
    /\ rectangles # ClaimFresh(jsonData.doc)

-----------------------------------------------------------------------------
(* Loads come to an end *)

\* C16: every change of the page number or of the prefix starts a new load
\* for the new request and sets the loading flag; a load that ends, loaded or
\* failed, leaves the loading flag false; and, every fetch being answered in
\* the end, every started load ends and the loading flag does not stay true
\* for ever
C16_EveryLoadEnds ==
    /\ [][(pageNumber' # pageNumber \/ filePrefix' # filePrefix) =>
             /\ Len(loads') = Len(loads) + 1
             /\ loads'[Len(loads')] = NewLoad(pageNumber', filePrefix')
             /\ loading']_vars
    /\ [][\A i \in 1..Len(loads) :
             (InFlight(loads[i]) /\ ~InFlight(loads'[i])) =>
                (~loading' /\ (loads'[i].pc = "failed" => error' # "null"))]_vars
    /\ \A i \in LoadIds :
          (Len(loads) >= i) ~> (Len(loads) >= i /\ ~InFlight(loads[i]))
    /\ loading ~> ~loading

\* a change of prefix or page started a load, and every load has ended, one
\* loaded and one failed
C16_Witness ==
    /\ Len(loads) >= 2
    /\ AllLoadsEnded
    /\ ~loading
    /\ \E i, j \in 1..Len(loads) : loads[i].pc = "loaded" /\ loads[j].pc = "failed"

-----------------------------------------------------------------------------
(* The drag in progress *)

\* C17: in every reachable state the drag mode is None exactly when no
\* rectangle id is selected
C17_ModeIffSelection == (dragMode = "None") <=> (draggedRectId = "null")

\* a pointer-down has just set the drag mode and the selected id
C17_Witness ==
    /\ lastEvent.kind = "mousedown"
    /\ dragMode # "None"
    /\ draggedRectId # "null"
    /\ gesture.moves = 0

\* C18: in a Move gesture (a pointer-down on the body of a rectangle, then
\* pointer-moves, no pointer-up), with the document that was on display at
\* the pointer-down still the stored one, the position of the dragged
\* rectangle is its position at the pointer-down plus the way the pointer
\* has gone since: current pointer position minus pointer-down position
C18_MoveTelescopes ==
    (dragMode = "Move" /\ DraggedIndex # 0 /\ jsonData.load = gesture.load) =>
        LET r == rectangles[DraggedIndex] IN
        /\ r.x = gesture.origin.x + (lastMousePos.x - gesture.down.x)
        /\ r.y = gesture.origin.y + (lastMousePos.y - gesture.down.y)

\* two pointer-moves or more into a Move gesture, the pointer away from
\* where it went down
C18_Witness ==
    /\ lastEvent.kind = "mousemove"
    /\ dragMode = "Move"
    /\ DraggedIndex # 0
    /\ jsonData.load = gesture.load
    /\ gesture.moves >= 2
    /\ lastMousePos.x # gesture.down.x
    /\ lastMousePos.y # gesture.down.y

-----------------------------------------------------------------------------
(* What the viewer shows *)

SameRequest(i, j) == loads[i].page = loads[j].page /\ loads[i].prefix = loads[j].prefix

\* C19: whenever the viewer is displayed (loading false, no error) the stored
\* image and the stored layout document come from one load request, the same
\* page number and prefix
C19_ImageAndDocumentOfOneRequest ==
    ViewerDisplayed =>
        /\ imageUrl # 0
        /\ jsonData.load # 0
        /\ SameRequest(imageUrl, jsonData.load)

\* C20: whenever a drag is in progress the selected id is the id of a
\* rectangle of the current set, and that rectangle is the one the
\* pointer-down hit: the set has not been replaced by the rectangles of a
\* document that arrived after the pointer-down
C20_DragPointsAtHitRectangle ==
    dragMode # "None" =>
        /\ DraggedIndex # 0
        /\ DocHasBlocks(jsonData.doc) => jsonData.load = gesture.load

====
